---- MODULE Spec2Model ----
(***************************************************************************)
(* A model of src/src/lib.rs: the three containers SelfMonadOnce,          *)
(* SelfMonad and SelfMonadMut, each holding an owner and a derivation step *)
(* (func), and the SelfMonadOwner accessors.                               *)
(*                                                                         *)
(* One container is constructed per behaviour.  A call of deref, as_ref or *)
(* as_mut is split at the place where the container hands control to the   *)
(* step: the entry action runs the container's code up to the invocation   *)
(* of the step, StepReturn runs the end of the step's body and the return  *)
(* of the call.  Between the two the body of the step may itself call the  *)
(* container (a re-entrant call).                                          *)
(***************************************************************************)
EXTENDS Naturals, Sequences, FiniteSets

\* ------------------------------------------------------------- bounds
MaxLen == 3
MaxHi == 2
MaxCalls == 2
MaxBorrows == 2

Chars == {"h", "e"}

\* The owners: O = String, a sequence of characters.  A container is
\* constructed with a prefix of "hehe...", up to MaxLen characters long.
Text(n) == [i \in 1..n |-> IF i % 2 = 1 THEN "h" ELSE "e"]

Owners == {Text(n) : n \in 0..MaxLen}

(***************************************************************************)
(* The derivation steps F.  A step is a closure                            *)
(*     |s| { count += 1; [overwrite s]; [m.<reenter>()]; &s[0..hi] }      *)
(*  sig      "ref": F(&O) -> &V,  "mut": F(&mut O) -> &mut V               *)
(*  hi       the view is the first hi elements of the owner                *)
(*  counting whether the closure keeps a counter of its invocations        *)
(*  count    the counter (the closure's internal state)                    *)
(*  mutates  whether the body writes to the owner (only a "mut" step can)  *)
(*  reenter  the call the body makes on its own container through a shared *)
(*           handle ("none" when it makes none); a shared handle gives     *)
(*           access to the &self methods only.                             *)
(***************************************************************************)
Steps ==
    {f \in [sig : {"ref", "mut"}, hi : 0..MaxHi, counting : BOOLEAN,
            count : {0}, mutates : BOOLEAN,
            reenter : {"none", "as_ref", "owner"}] :
        /\ f.sig = "mut" => f.reenter = "none"
        /\ f.sig = "ref" => ~f.mutates}

VARIABLES
    kind,      \* the struct constructed: "none" before construction
    moved,     \* the container was consumed (moved out of) by owner_into
    owner,     \* field owner: O
    func,      \* field func: [sig: which signature the type F has,
               \*              cell: the F stored (<<f>>, or <<>> for None),
               \*              borrow: the RefCell's exclusive-borrow flag]
    stack,     \* the calls in progress, innermost last
    borrows,   \* the references the caller still holds after a call returned:
               \* [shared: how many & references (views, owners),
               \*  excl: the &mut reference ("view", "owner") or "none",
               \*  hi: the elements of the owner the &mut view covers]
    ret,       \* what the caller got from its last call that ended:
               \* [op, status: "ok" or "panic", val: the value returned,
               \*  of: the owner at that moment, depth: for a panic, how
               \*  many calls were in progress where it was raised]
    invoked,   \* history: how many times the step has been invoked
    served,    \* history: how many materialize calls returned a view
    owner0,    \* history: the owner passed to the constructor
    written    \* history: the caller wrote through a handle it was given

vars == <<kind, moved, owner, func, stack, borrows, ret, invoked, served,
          owner0, written>>

NoBorrows == [shared |-> 0, excl |-> "none", hi |-> 0]

NoRet == [op |-> "none", status |-> "none", val |-> <<>>, of |-> <<>>,
          depth |-> 0]

Ok(op, v) == [op |-> op, status |-> "ok", val |-> v, of |-> owner,
              depth |-> 0]

Init ==
    /\ kind = "none"
    /\ moved = FALSE
    /\ owner = <<>>
    /\ func = [sig |-> "ref", cell |-> <<>>, borrow |-> FALSE]
    /\ stack = <<>>
    /\ borrows = NoBorrows
    /\ ret = NoRet
    /\ invoked = 0
    /\ served = 0
    /\ owner0 = <<>>
    /\ written = FALSE

\* ------------------------------------------------------- the step itself

\* &s[0..hi]: the view the step returns; out of range when hi > len.
InRange(f, o) == f.hi <= Len(o)

\* Mutant: the step's view taken from the wrong end of the owner.
View_tail(f, o) == SubSeq(o, Len(o) - f.hi + 1, Len(o))

View(f, o) == SubSeq(o, 1, f.hi)

\* The write a mutating step makes to the owner before it returns the view.
Mutate(o) == [i \in DOMAIN o |-> "e"]

\* The closure after one more invocation of its body.
Called(f) == [f EXCEPT !.count = IF f.counting THEN f.count + 1 ELSE f.count]

\* The owner after the body of f ran on it.
OwnerAfter(f, o) == IF f.mutates THEN Mutate(o) ELSE o

\* ------------------------------------------------- calls and borrow rules

Top == stack[Len(stack)]

\* The closure whose body is executing in the innermost call: the one taken
\* out of the Cell (SelfMonadOnce) or the one stored in the container.
Running == IF Top.fn # <<>> THEN Top.fn[1] ELSE func.cell[1]

\* A call by the caller of the container; excl: the method takes &mut self
\* or self, else &self.  The borrow checker admits it only when no
\* conflicting reference is alive.
FromCaller(excl) ==
    /\ stack = <<>>
    /\ IF excl THEN borrows = NoBorrows ELSE borrows.excl = "none"

\* A call made by the body of the running step.
FromStep(op) == stack # <<>> /\ Top.pending = op

Callable(k, op, excl) ==
    /\ kind = k
    /\ ~moved
    /\ FromCaller(excl) \/ (~excl /\ FromStep(op))

\* The stack once the innermost body has made its call.
Resumed ==
    IF stack = <<>> THEN stack
    ELSE [stack EXCEPT ![Len(stack)].pending = "none"]

Frame(op, taken, f) == [op |-> op, fn |-> taken, pending |-> f.reenter]

\* A panic: the call ends without a value and unwinds every call in
\* progress; unwinding drops the RefMut guards the calls hold.
Panic(op) ==
    /\ ret' = [op |-> op, status |-> "panic", val |-> <<>>, of |-> owner,
               depth |-> Len(stack)]
    /\ stack' = <<>>

Unwound(c) == IF stack # <<>> THEN [c EXCEPT !.borrow = FALSE] ELSE c

\* A call by the caller keeps the reference it returns: the model holds
\* at most MaxBorrows of them at a time.
Room == stack = <<>> => borrows.shared < MaxBorrows

Shared == [borrows EXCEPT !.shared = borrows.shared + 1]

Excl(what, hi) == [shared |-> 0, excl |-> what, hi |-> hi]

\* ------------------------------------------------------------ constructors

\* Mutant: the constructor runs the step once to try it.
Construct_eager(k, o, f) ==
    /\ kind = "none"
    /\ kind' = k
    /\ owner' = OwnerAfter(f, o)
    /\ func' = [sig |-> f.sig, cell |-> <<Called(f)>>, borrow |-> FALSE]
    /\ owner0' = o
    /\ invoked' = invoked + 1
    /\ UNCHANGED <<moved, stack, borrows, ret, served, written>>

Construct(k, o, f) ==
    /\ kind = "none"
    /\ kind' = k
    /\ owner' = o
    /\ func' = [sig |-> f.sig, cell |-> <<f>>, borrow |-> FALSE]
    /\ owner0' = o
    /\ UNCHANGED <<moved, stack, borrows, ret, invoked, served, written>>

\* F: FnOnce: the step runs at most once, a counter in it is never read.
SelfMonadOnce_new(o, f) ==
    /\ f.sig = "ref" /\ ~f.counting
    /\ Construct("SelfMonadOnce", o, f)

SelfMonadOnce_new_mut(o, f) ==
    /\ f.sig = "mut" /\ ~f.counting
    /\ Construct("SelfMonadOnce", o, f)

\* F: Fn: the step cannot change what it captured.  A step of SelfMonad
\* that calls deref or as_ref of its own container recurses without end;
\* such steps are left out.
SelfMonad_new(o, f) ==
    /\ f.sig = "ref" /\ ~f.counting /\ f.reenter \in {"none", "owner"}
    /\ Construct("SelfMonad", o, f)

SelfMonad_new_mut(o, f) ==
    /\ f.sig = "mut" /\ ~f.counting
    /\ Construct("SelfMonad", o, f)

\* F: FnMut: the step keeps state between its invocations.
SelfMonadMut_new(o, f) ==
    /\ f.sig = "ref" /\ f.counting
    /\ Construct("SelfMonadMut", o, f)

SelfMonadMut_new_mut(o, f) ==
    /\ f.sig = "mut" /\ f.counting
    /\ Construct("SelfMonadMut", o, f)

\* ------------------------------------------------------- invoking the step

\* The container calls the step f on its owner: the body of f starts.
\* taken: the closure was moved out of the container for the call.
Invoke(op, f, taken) ==
    /\ stack' = Append(Resumed,
                       Frame(op, IF taken THEN <<Called(f)>> ELSE <<>>, f))
    /\ owner' = OwnerAfter(f, owner)
    /\ invoked' = invoked + 1
    /\ UNCHANGED <<kind, moved, borrows, ret, served, owner0, written>>

\* A call that panics before it reaches the step.
Refuse(op) ==
    /\ Panic(op)
    /\ func' = Unwound(func)
    /\ UNCHANGED <<kind, moved, owner, borrows, invoked, served, owner0,
                   written>>

\* ----------------------------------------------------------- SelfMonadOnce

\* Mutant: the step is read in place (as with a clone of the stored step)
\* and the slot stays occupied.
SelfMonadOnce_as_ref_get(op) ==
    /\ Callable("SelfMonadOnce", op, FALSE)
    /\ func.sig = "ref"
    /\ Room
    /\ func.cell # <<>>
    /\ func' = func
    /\ Invoke(op, func.cell[1], TRUE)

\* Mutant: an empty slot yields an empty view (unwrap_or_default) instead of
\* a panic.
SelfMonadOnce_as_ref_stale(op) ==
    /\ Callable("SelfMonadOnce", op, FALSE)
    /\ func.sig = "ref"
    /\ Room
    /\ IF func.cell = <<>>
       THEN /\ stack = <<>>
            /\ ret' = Ok(op, <<>>)
            /\ borrows' = Shared
            /\ UNCHANGED <<kind, moved, owner, func, stack, invoked, served,
                           owner0, written>>
       ELSE /\ func' = [func EXCEPT !.cell = <<>>]
            /\ Invoke(op, func.cell[1], TRUE)

\* Mutant: the slot is looked at before the step runs and emptied only
\* after it returned.
SelfMonadOnce_as_ref_peek(op) ==
    /\ Callable("SelfMonadOnce", op, FALSE)
    /\ func.sig = "ref"
    /\ Room
    /\ IF func.cell = <<>> \/ invoked >= MaxCalls
       THEN Refuse(op)
       ELSE /\ func' = func
            /\ Invoke(op, func.cell[1], TRUE)

\* (self.func.take().unwrap())(&self.owner)
SelfMonadOnce_as_ref(op) ==
    /\ Callable("SelfMonadOnce", op, FALSE)
    /\ func.sig = "ref"
    /\ Room
    /\ IF func.cell = <<>>
       THEN Refuse(op)
       ELSE /\ func' = [func EXCEPT !.cell = <<>>]
            /\ Invoke(op, func.cell[1], TRUE)

SelfMonadOnce_deref == SelfMonadOnce_as_ref("deref")

\* (self.func.take().unwrap())(&mut self.owner)
SelfMonadOnce_as_mut ==
    /\ Callable("SelfMonadOnce", "as_mut", TRUE)
    /\ func.sig = "mut"
    /\ Room
    /\ IF func.cell = <<>>
       THEN Refuse("as_mut")
       ELSE /\ func' = [func EXCEPT !.cell = <<>>]
            /\ Invoke("as_mut", func.cell[1], TRUE)

\* --------------------------------------------------------------- SelfMonad

\* Mutant: the step is consumed by the call, as in SelfMonadOnce.
SelfMonad_as_ref_once(op) ==
    /\ Callable("SelfMonad", op, FALSE)
    /\ func.sig = "ref"
    /\ Room
    /\ invoked < MaxCalls
    /\ IF func.cell = <<>>
       THEN Refuse(op)
       ELSE /\ func' = [func EXCEPT !.cell = <<>>]
            /\ Invoke(op, func.cell[1], TRUE)

\* (self.func)(&self.owner)
SelfMonad_as_ref(op) ==
    /\ Callable("SelfMonad", op, FALSE)
    /\ func.sig = "ref"
    /\ Room
    /\ invoked < MaxCalls
    /\ func' = [func EXCEPT !.cell = <<Called(func.cell[1])>>]
    /\ Invoke(op, func.cell[1], FALSE)

SelfMonad_deref == SelfMonad_as_ref("deref")

\* (self.func)(&mut self.owner)
SelfMonad_as_mut ==
    /\ Callable("SelfMonad", "as_mut", TRUE)
    /\ func.sig = "mut"
    /\ Room
    /\ invoked < MaxCalls
    /\ func' = [func EXCEPT !.cell = <<Called(func.cell[1])>>]
    /\ Invoke("as_mut", func.cell[1], FALSE)

\* ------------------------------------------------------------ SelfMonadMut

\* Mutant: the call runs a copy of the step; what the step does to its own
\* state is lost.
SelfMonadMut_as_ref_lost(op) ==
    /\ Callable("SelfMonadMut", op, FALSE)
    /\ func.sig = "ref"
    /\ Room
    /\ func.borrow \/ invoked < MaxCalls
    /\ IF func.borrow
       THEN Refuse(op)
       ELSE /\ func' = [func EXCEPT !.borrow = TRUE]
            /\ Invoke(op, func.cell[1], FALSE)

\* Mutant: the step is reached without asking the RefCell (as through
\* as_ptr), whether it is borrowed or not.
SelfMonadMut_as_ref_unguarded(op) ==
    /\ Callable("SelfMonadMut", op, FALSE)
    /\ func.sig = "ref"
    /\ Room
    /\ invoked < MaxCalls
    /\ func' = [func EXCEPT !.borrow = TRUE,
                            !.cell = <<Called(func.cell[1])>>]
    /\ Invoke(op, func.cell[1], FALSE)

\* Mutant: the call waits for the guard (as with a lock) instead of
\* panicking when it is held.
SelfMonadMut_as_ref_blocking(op) ==
    /\ Callable("SelfMonadMut", op, FALSE)
    /\ func.sig = "ref"
    /\ Room
    /\ invoked < MaxCalls
    /\ ~func.borrow
    /\ func' = [func EXCEPT !.borrow = TRUE,
                            !.cell = <<Called(func.cell[1])>>]
    /\ Invoke(op, func.cell[1], FALSE)

\* (&mut *self.func.borrow_mut())(&self.owner): borrow_mut panics when the
\* RefCell is already borrowed.
SelfMonadMut_as_ref(op) ==
    /\ Callable("SelfMonadMut", op, FALSE)
    /\ func.sig = "ref"
    /\ Room
    /\ func.borrow \/ invoked < MaxCalls
    /\ IF func.borrow
       THEN Refuse(op)
       ELSE /\ func' = [func EXCEPT !.borrow = TRUE,
                                    !.cell = <<Called(func.cell[1])>>]
            /\ Invoke(op, func.cell[1], FALSE)

SelfMonadMut_deref == SelfMonadMut_as_ref("deref")

\* (&mut *self.func.borrow_mut())(&mut self.owner)
SelfMonadMut_as_mut ==
    /\ Callable("SelfMonadMut", "as_mut", TRUE)
    /\ func.sig = "mut"
    /\ Room
    /\ func.borrow \/ invoked < MaxCalls
    /\ IF func.borrow
       THEN Refuse("as_mut")
       ELSE /\ func' = [func EXCEPT !.borrow = TRUE,
                                    !.cell = <<Called(func.cell[1])>>]
            /\ Invoke("as_mut", func.cell[1], FALSE)

\* ------------------------------------------- the step returns to the call

\* Mutant: the RefMut guard is never dropped (as after mem::forget).
Returned_leak(c) == c

\* The RefMut guard of a call of SelfMonadMut is a temporary of the call's
\* expression: it is dropped when the call returns.
Returned(c) == IF kind = "SelfMonadMut" THEN [c EXCEPT !.borrow = FALSE] ELSE c

\* Mutant: the container keeps the view it returned last and returns it
\* again, whatever the owner has become.
StepReturn_cached ==
    /\ stack # <<>>
    /\ Top.pending = "none"
    /\ IF InRange(Running, owner)
       THEN /\ stack' = SubSeq(stack, 1, Len(stack) - 1)
            /\ func' = Returned(func)
            /\ ret' = IF Len(stack) > 1 THEN ret
                       ELSE IF ret.op \in {"deref", "as_ref", "as_mut"}
                               /\ ret.status = "ok"
                            THEN Ok(Top.op, ret.val)
                            ELSE Ok(Top.op, View(Running, owner))
            /\ borrows' = IF Len(stack) > 1 THEN borrows
                           ELSE IF Running.sig = "mut"
                                THEN Excl("view", Running.hi)
                                ELSE Shared
            /\ served' = served + 1
            /\ UNCHANGED <<kind, moved, owner, invoked, owner0, written>>
       ELSE /\ Panic("step")
            /\ func' = Unwound(func)
            /\ UNCHANGED <<kind, moved, owner, borrows, invoked, served,
                           owner0, written>>

\* The body of the running step reaches &s[0..hi]; the call that invoked it
\* returns the view, or the slice is out of range and the step panics.
StepReturn ==
    /\ stack # <<>>
    /\ Top.pending = "none"
    /\ IF InRange(Running, owner)
       THEN /\ stack' = SubSeq(stack, 1, Len(stack) - 1)
            /\ func' = Returned(func)
            /\ ret' = IF Len(stack) > 1 THEN ret
                       ELSE Ok(Top.op, View(Running, owner))
            /\ borrows' = IF Len(stack) > 1 THEN borrows
                           ELSE IF Running.sig = "mut"
                                THEN Excl("view", Running.hi)
                                ELSE Shared
            /\ served' = served + 1
            /\ UNCHANGED <<kind, moved, owner, invoked, owner0, written>>
       ELSE /\ Panic("step")
            /\ func' = Unwound(func)
            /\ UNCHANGED <<kind, moved, owner, borrows, invoked, served,
                           owner0, written>>

\* ---------------------------------------------------------- SelfMonadOwner

\* Mutant: owner() drops the stored step.
owner_ref_drops(k) ==
    /\ Callable(k, "owner", FALSE)
    /\ Room
    /\ ret' = IF stack = <<>> THEN Ok("owner", owner) ELSE ret
    /\ stack' = Resumed
    /\ borrows' = IF stack = <<>> THEN Shared ELSE borrows
    /\ func' = [func EXCEPT !.cell = <<>>]
    /\ UNCHANGED <<kind, moved, owner, invoked, served, owner0, written>>

\* &self.owner
owner_ref(k) ==
    /\ Callable(k, "owner", FALSE)
    /\ Room
    /\ ret' = IF stack = <<>> THEN Ok("owner", owner) ELSE ret
    /\ stack' = Resumed
    /\ borrows' = IF stack = <<>> THEN Shared ELSE borrows
    /\ UNCHANGED <<kind, moved, owner, func, invoked, served, owner0, written>>

\* Mutant: owner_mut takes &self (the owner sits in an UnsafeCell), so the
\* borrow checker admits it next to live shared references.
owner_mut_ref_shared(k) ==
    /\ Callable(k, "owner_mut", FALSE)
    /\ stack = <<>>
    /\ ret' = Ok("owner_mut", owner)
    /\ borrows' = Excl("owner", 0)
    /\ UNCHANGED <<kind, moved, owner, func, stack, invoked, served, owner0,
                   written>>

\* &mut self.owner
owner_mut_ref(k) ==
    /\ Callable(k, "owner_mut", TRUE)
    /\ Room
    /\ ret' = Ok("owner_mut", owner)
    /\ borrows' = Excl("owner", 0)
    /\ UNCHANGED <<kind, moved, owner, func, stack, invoked, served, owner0,
                   written>>

\* Mutant: owner_into hands back a fresh, empty owner.
owner_move_default(k) ==
    /\ Callable(k, "owner_into", TRUE)
    /\ ret' = Ok("owner_into", <<>>)
    /\ moved' = TRUE
    /\ func' = [func EXCEPT !.cell = <<>>]
    /\ UNCHANGED <<kind, owner, stack, borrows, invoked, served, owner0,
                   written>>

\* Mutant: owner_into takes &self and returns a copy; the container stays.
owner_move_shared(k) ==
    /\ Callable(k, "owner_into", FALSE)
    /\ stack = <<>>
    /\ ret' = Ok("owner_into", owner)
    /\ UNCHANGED <<kind, moved, func, owner, stack, borrows, invoked, served,
                   owner0, written>>

\* self.owner: the container is moved into the call and dropped, the step
\* with it; the owner is moved out to the caller.
owner_move(k) ==
    /\ Callable(k, "owner_into", TRUE)
    /\ ret' = Ok("owner_into", owner)
    /\ moved' = TRUE
    /\ func' = [func EXCEPT !.cell = <<>>]
    /\ UNCHANGED <<kind, owner, stack, borrows, invoked, served, owner0,
                   written>>

SelfMonadOnce_owner == owner_ref("SelfMonadOnce")

\* Mutant: owner_mut reaches the owner by way of the step slot and panics
\* when the slot is empty.
SelfMonadOnce_owner_mut_unwrap ==
    IF func.cell = <<>>
    THEN Callable("SelfMonadOnce", "owner_mut", TRUE) /\ Refuse("owner_mut")
    ELSE owner_mut_ref("SelfMonadOnce")

SelfMonadOnce_owner_mut == owner_mut_ref("SelfMonadOnce")

SelfMonadOnce_owner_into == owner_move("SelfMonadOnce")

SelfMonad_owner == owner_ref("SelfMonad")

SelfMonad_owner_mut == owner_mut_ref("SelfMonad")

SelfMonad_owner_into == owner_move("SelfMonad")

SelfMonadMut_owner == owner_ref("SelfMonadMut")

SelfMonadMut_owner_mut == owner_mut_ref("SelfMonadMut")

SelfMonadMut_owner_into == owner_move("SelfMonadMut")

\* ------------------------------------------- the caller and its references

\* A reference a call returned goes out of scope.
Release ==
    /\ stack = <<>>
    /\ borrows # NoBorrows
    /\ borrows' = IF borrows.excl # "none" THEN NoBorrows
                  ELSE [borrows EXCEPT !.shared = borrows.shared - 1]
    /\ UNCHANGED <<kind, moved, owner, func, stack, ret, invoked, served,
                   owner0, written>>

\* What the caller does to the String through the &mut O of owner_mut.
\* s.push('h'), while the model has room for it.
WriteOwner ==
    /\ stack = <<>>
    /\ borrows.excl = "owner"
    /\ Len(owner) < MaxLen
    /\ owner' = Append(owner, "h")
    /\ written' = TRUE
    /\ UNCHANGED <<kind, moved, func, stack, borrows, ret, invoked, served,
                   owner0>>

\* Mutant: the view is a copy of the owner's elements; writing to it leaves
\* the owner as it was.
WriteView_copy(p, c) ==
    /\ stack = <<>>
    /\ borrows.excl = "view"
    /\ p \in 1..borrows.hi
    /\ written' = TRUE
    /\ UNCHANGED <<kind, moved, owner, func, stack, borrows, ret, invoked,
                   served, owner0>>

\* The caller writes one element through the &mut V that as_mut returned.
WriteView(p, c) ==
    /\ stack = <<>>
    /\ borrows.excl = "view"
    /\ p \in 1..borrows.hi
    /\ owner' = [owner EXCEPT ![p] = c]
    /\ written' = TRUE
    /\ UNCHANGED <<kind, moved, func, stack, borrows, ret, invoked, served,
                   owner0>>

Next ==
    \/ \E o \in Owners, f \in Steps : SelfMonadOnce_new(o, f)
    \/ \E o \in Owners, f \in Steps : SelfMonadOnce_new_mut(o, f)
    \/ \E o \in Owners, f \in Steps : SelfMonad_new(o, f)
    \/ \E o \in Owners, f \in Steps : SelfMonad_new_mut(o, f)
    \/ \E o \in Owners, f \in Steps : SelfMonadMut_new(o, f)
    \/ \E o \in Owners, f \in Steps : SelfMonadMut_new_mut(o, f)
    \/ SelfMonadOnce_deref
    \/ SelfMonadOnce_as_ref("as_ref")
    \/ SelfMonadOnce_as_mut
    \/ SelfMonad_deref
    \/ SelfMonad_as_ref("as_ref")
    \/ SelfMonad_as_mut
    \/ SelfMonadMut_deref
    \/ SelfMonadMut_as_ref("as_ref")
    \/ SelfMonadMut_as_mut
    \/ StepReturn
    \/ SelfMonadOnce_owner
    \/ SelfMonadOnce_owner_mut
    \/ SelfMonadOnce_owner_into
    \/ SelfMonad_owner
    \/ SelfMonad_owner_mut
    \/ SelfMonad_owner_into
    \/ SelfMonadMut_owner
    \/ SelfMonadMut_owner_mut
    \/ SelfMonadMut_owner_into
    \/ Release
    \/ WriteOwner
    \/ \E p \in 1..MaxHi, c \in Chars : WriteView(p, c)

Spec == Init /\ [][Next]_vars

\* ------------------------------------------------------------------ claims

Materialize == {"deref", "as_ref", "as_mut"}

\* The step the container was constructed with returned a view to the caller.
GotView(r) == r.op \in Materialize /\ r.status = "ok"

\* The container refused a call (it panicked before it reached the step).
Refused(r) == r.op \in Materialize /\ r.status = "panic"

OnceMaterialize ==
    SelfMonadOnce_deref \/ SelfMonadOnce_as_ref("as_ref") \/ SelfMonadOnce_as_mut

\* C1: the step of a SelfMonadOnce is invoked at most once, whatever calls
\* are made on the container.
C1_OnceAtMostOnce == kind = "SelfMonadOnce" => invoked <= 1

\* A second materialize call was made on a SelfMonadOnce whose step had run.
C1_Witness ==
    kind = "SelfMonadOnce" /\ invoked = 1 /\ served = 1 /\ Refused(ret)

\* C2: once a materialize call of a SelfMonadOnce has returned a view, every
\* later deref, as_ref or as_mut panics: it returns no view, does not run
\* the step and leaves no call in progress; so no second view is ever
\* returned.
C2_OnceSecondCallPanics ==
    /\ [](kind = "SelfMonadOnce" => served <= 1)
    /\ [][(served >= 1 /\ OnceMaterialize) =>
            /\ Refused(ret')
            /\ stack' = <<>>
            /\ served' = served /\ invoked' = invoked
            /\ borrows' = borrows]_vars

\* The as_mut of a SelfMonadOnce that already returned its view panicked.
C2_Witness ==
    /\ kind = "SelfMonadOnce" /\ served = 1
    /\ ret.op = "as_mut" /\ ret.status = "panic" /\ ret.depth = 0

\* C3: on the three containers, a materialize call that returns gives the
\* caller the first hi elements of the owner as stored at that moment, hi
\* being the stored step's range, through deref, as_ref and as_mut alike.
C3_ViewIsStepOfOwner ==
    [][(stack # <<>> /\ stack' = <<>> /\ ret'.status = "ok") =>
        /\ ret'.op = Top.op /\ ret'.op \in Materialize
        /\ Running.hi <= Len(owner')
        /\ ret'.val = [i \in 1..Running.hi |-> owner'[i]]
        /\ ret'.of = owner']_vars

\* The tests' case: deref of an owner "heh" with the step &s[0..2] gave "he".
C3_Witness ==
    /\ kind = "SelfMonadMut" /\ ret.op = "deref" /\ ret.status = "ok"
    /\ ret.of = <<"h", "e", "h">> /\ ret.val = <<"h", "e">>


SelfMonadMaterialize ==
    SelfMonad_deref \/ SelfMonad_as_ref("as_ref") \/ SelfMonad_as_mut

MutMaterialize ==
    SelfMonadMut_deref \/ SelfMonadMut_as_ref("as_ref") \/ SelfMonadMut_as_mut

\* C4: a SelfMonad never refuses deref or as_ref and never loses or changes
\* its step; and when a call returned a view and the owner is the same at a
\* later call, that call returns a view with the same content.
C4_PureRepeatable ==
    /\ [](kind = "SelfMonad" =>
            /\ ~Refused(ret)
            /\ ~moved => func.cell # <<>>)
    /\ [][(kind = "SelfMonad" /\ ~moved') => func' = func]_vars
    /\ [][(/\ kind = "SelfMonad" /\ func.sig = "ref"
           /\ GotView(ret) /\ ret.of = owner
           /\ stack # <<>> /\ stack' = <<>>) =>
            (GotView(ret') /\ ret'.val = ret.val)]_vars

\* Two calls on a SelfMonad over "heh" with &s[0..2] both returned "he".
C4_Witness ==
    /\ kind = "SelfMonad" /\ func.sig = "ref" /\ ~written
    /\ invoked = 2 /\ served = 2
    /\ GotView(ret) /\ ret.val = <<"h", "e">>

\* C5: on a SelfMonadMut the step's counter equals the number of
\* invocations made so far: each call made by the caller (none in progress)
\* reaches the step and runs it on the state the previous call left; the
\* container refuses no such call.
C5_StatefulSequential ==
    /\ []((kind = "SelfMonadMut" /\ ~moved) => func.cell[1].count = invoked)
    /\ []((kind = "SelfMonadMut" /\ Refused(ret)) => ret.depth > 0)
    /\ [][(kind = "SelfMonadMut" /\ stack = <<>> /\ MutMaterialize) =>
            /\ stack' # <<>>
            /\ invoked' = invoked + 1
            /\ func'.cell[1].count = func.cell[1].count + 1]_vars

\* Two sequential calls returned a view and the counter reads 2.
C5_Witness ==
    /\ kind = "SelfMonadMut" /\ ~moved /\ stack = <<>>
    /\ invoked = 2 /\ served = 2 /\ func.cell[1].count = 2
    /\ GotView(ret)

\* C6: a materialize call on a SelfMonadMut whose RefCell is borrowed (made
\* from within the body of the step) panics: the step is not invoked again,
\* no view is returned, and no call is ever nested in another.
C6_ReentrantRefused ==
    /\ [](kind = "SelfMonadMut" => Len(stack) <= 1)
    /\ [][(kind = "SelfMonadMut" /\ func.borrow /\ MutMaterialize) =>
            /\ Refused(ret') /\ ret'.depth >= 1
            /\ stack' = <<>>
            /\ invoked' = invoked /\ served' = served
            /\ borrows' = borrows]_vars

\* The step's body called as_ref on its own container and was refused.
C6_Witness ==
    /\ kind = "SelfMonadMut" /\ ret.op = "as_ref" /\ ret.status = "panic"
    /\ ret.depth = 1 /\ invoked = 1 /\ served = 0

OwnerAccess ==
    \/ SelfMonadOnce_owner \/ SelfMonadOnce_owner_mut
    \/ SelfMonad_owner \/ SelfMonad_owner_mut
    \/ SelfMonadMut_owner \/ SelfMonadMut_owner_mut

\* C7: owner() and owner_mut() do not invoke the step and leave the stored
\* step alone: the invocation count, the slot, the step's state, the guard
\* and the owner are the same after the call as before.
C7_OwnerAccessFrame ==
    [][OwnerAccess =>
        /\ invoked' = invoked /\ served' = served
        /\ func' = func
        /\ owner' = owner
        /\ Len(stack') = Len(stack)]_vars

\* owner() was called from within the step of a SelfMonadMut, while the
\* guard was held, and the guard is still held.
C7_Witness ==
    /\ kind = "SelfMonadMut" /\ stack # <<>> /\ func.borrow
    /\ func.cell[1].reenter = "owner" /\ Top.pending = "none"
    /\ func.cell[1].count = 1


OwnerInto ==
    SelfMonadOnce_owner_into \/ SelfMonad_owner_into \/ SelfMonadMut_owner_into

\* C8: owner_into() on a container whose step was never invoked and whose
\* owner was never written to (in particular right after new or new_mut)
\* returns the owner the constructor was given, and the step stays
\* uninvoked.
C8_RoundTrip ==
    [][(invoked = 0 /\ ~written /\ OwnerInto) =>
        /\ ret'.op = "owner_into" /\ ret'.status = "ok"
        /\ ret'.val = owner0
        /\ invoked' = 0 /\ served' = 0]_vars

\* "heh" came back from owner_into of a SelfMonadMut never materialized.
C8_Witness ==
    /\ kind = "SelfMonadMut" /\ moved /\ invoked = 0 /\ ~written
    /\ owner0 = <<"h", "e", "h">> /\ ret.val = <<"h", "e", "h">>

\* C9 as claimed: whatever materialize, owner and owner_mut calls came
\* before (every step invoked having returned its view, and the caller
\* itself writing nothing through a handle), owner_into() returns the value
\* the container was constructed with.
C9_Original == (moved /\ ~written /\ served = invoked) => ret.val = owner0

\* C9, amended: owner_into() returns the owner as stored at that moment,
\* which is the constructed value when nothing wrote to it (no write by the
\* caller through a handle, no step run on &mut O); the call consumes the
\* container, and no operation takes place on a consumed container.
C9_OwnerIntoReturnsStored ==
    /\ [][OwnerInto =>
            /\ ret'.op = "owner_into" /\ ret'.status = "ok"
            /\ ret'.val = owner
            /\ (~written /\ (invoked = 0 \/ func.sig = "ref"))
                   => ret'.val = owner0
            /\ moved']_vars
    /\ [][~moved]_vars

\* owner_into returned an owner that a step had changed: not the constructed
\* value.
C9_Witness ==
    /\ moved /\ ~written /\ invoked > 0 /\ served = invoked
    /\ ret.op = "owner_into" /\ ret.val = owner /\ ret.val # owner0

\* C10: each constructor stores the owner and the step it is given and does
\* nothing else: the step is not invoked, the slot is occupied, the guard
\* is free, no call is in progress.
C10_ConstructionStoresOnly ==
    [][\A o \in Owners, f \in Steps :
        (\/ SelfMonadOnce_new(o, f) \/ SelfMonadOnce_new_mut(o, f)
         \/ SelfMonad_new(o, f) \/ SelfMonad_new_mut(o, f)
         \/ SelfMonadMut_new(o, f) \/ SelfMonadMut_new_mut(o, f)) =>
            /\ owner' = o
            /\ func'.cell = <<f>> /\ ~func'.borrow
            /\ invoked' = 0 /\ served' = 0
            /\ stack' = <<>> /\ ret' = NoRet /\ borrows' = NoBorrows
            /\ ~moved']_vars

\* A SelfMonadOnce just constructed by new_mut with "heh" and a step that
\* would change the owner: nothing has run.
C10_Witness ==
    /\ kind = "SelfMonadOnce" /\ ret = NoRet /\ stack = <<>> /\ ~moved
    /\ invoked = 0 /\ owner = <<"h", "e", "h">>
    /\ func.cell # <<>> /\ func.cell[1].mutates /\ ~func.borrow

AsMut == SelfMonadOnce_as_mut \/ SelfMonad_as_mut \/ SelfMonadMut_as_mut

OwnerMut ==
    SelfMonadOnce_owner_mut \/ SelfMonad_owner_mut \/ SelfMonadMut_owner_mut

OwnerRead == SelfMonadOnce_owner \/ SelfMonad_owner \/ SelfMonadMut_owner

\* C11: the &mut V that as_mut returned covers the elements of the stored
\* owner the step selected: a write through it sets that element of the
\* owner, the elements beyond the view stay as they were when as_mut
\* returned, and owner() and owner_into() return the owner so written.
C11_MutViewAliasesOwner ==
    /\ [](borrows.excl = "view" =>
            /\ ret.op = "as_mut" /\ ret.status = "ok"
            /\ borrows.hi = Len(ret.val)
            /\ Len(owner) = Len(ret.of)
            /\ \A i \in (borrows.hi + 1)..Len(owner) : owner[i] = ret.of[i])
    /\ [][\A p \in 1..MaxHi, c \in Chars : WriteView(p, c) =>
            /\ p <= Len(ret.val)
            /\ owner'[p] = c
            /\ \A i \in 1..Len(owner) : i # p => owner'[i] = owner[i]]_vars
    /\ [][(stack = <<>> /\ (OwnerRead \/ OwnerInto)) =>
            (ret'.status = "ok" /\ ret'.val = owner)]_vars

\* A SelfMonad over "heh" with the step &mut s[0..2]: both elements of the
\* view were overwritten and owner() shows "ehh".
C11_Witness ==
    /\ kind = "SelfMonad" /\ ~moved /\ func.sig = "mut"
    /\ ~func.cell[1].mutates /\ func.cell[1].hi = 2
    /\ owner0 = <<"h", "e", "h">> /\ written
    /\ ret.op = "owner" /\ ret.val = <<"e", "h", "h">>

\* C12: while the caller holds a reference a call returned (a view, or the
\* owner), no owner_mut, as_mut or owner_into takes place; and while it
\* holds a shared one, also a view from deref or as_ref of a SelfMonadMut,
\* the owner is neither changed nor moved.
C12_NoMutationWhileViewAlive ==
    /\ [][borrows # NoBorrows => ~(OwnerMut \/ AsMut \/ OwnerInto)]_vars
    /\ [][borrows.shared > 0 => (owner' = owner /\ moved' = moved)]_vars

\* A view from as_ref of a SelfMonadMut is alive, and as_ref was called
\* again meanwhile: the step is running, the owner is as it was.
C12_Witness ==
    /\ kind = "SelfMonadMut" /\ borrows.shared = 1 /\ stack # <<>>
    /\ invoked = 2 /\ served = 1 /\ ret.op = "as_ref" /\ ret.status = "ok"
    /\ owner = ret.of

Repeatable == {"SelfMonad", "SelfMonadMut"}

\* C13: a SelfMonad or SelfMonadMut keeps no view: every materialize call
\* by the caller invokes the step anew, and the view it returns is the one
\* of the owner as stored then, also after the owner was changed through
\* owner_mut() or through a mutable view since the last call.
C13_NoStoredView ==
    /\ [][(kind \in Repeatable /\ stack = <<>>
           /\ (SelfMonadMaterialize \/ MutMaterialize)) =>
            (invoked' = invoked + 1 /\ stack' # <<>>)]_vars
    /\ [][(kind \in Repeatable /\ written /\ GotView(ret')
           /\ stack # <<>> /\ stack' = <<>>) =>
            /\ ret'.of = owner
            /\ Len(ret'.val) = Running.hi
            /\ Len(ret'.val) <= Len(owner)
            /\ \A i \in 1..Len(ret'.val) : ret'.val[i] = owner[i]]_vars

\* A SelfMonad over "heh" with &mut s[0..2] returned "he"; the caller wrote
\* through the view, and the next as_mut returned "ee".
C13_Witness ==
    /\ kind = "SelfMonad" /\ ~moved /\ func.sig = "mut"
    /\ ~func.cell[1].mutates /\ func.cell[1].hi = 2
    /\ owner0 = <<"h", "e", "h">> /\ written
    /\ invoked = 2 /\ served = 2
    /\ ret.op = "as_mut" /\ ret.status = "ok" /\ ret.val = <<"e", "e">>

\* C14: when the body of the step of a SelfMonadMut calls as_ref on its own
\* container, the guard is held and the call is not left waiting: it can
\* be taken, and it ends at once in a panic that hands control back to the
\* caller, with the owner and the step's state as they were and the step
\* not invoked.
C14_RejectedCallFailsCleanly ==
    /\ []((kind = "SelfMonadMut" /\ stack # <<>> /\ Top.pending = "as_ref") =>
            (func.borrow /\ ENABLED SelfMonadMut_as_ref("as_ref")))
    /\ [][(kind = "SelfMonadMut" /\ func.borrow /\ MutMaterialize) =>
            /\ ret'.status = "panic" /\ ret'.op = "as_ref"
            /\ stack' = <<>>
            /\ owner' = owner /\ ret'.of = owner
            /\ func'.cell = func.cell
            /\ invoked' = invoked]_vars

\* The second call's step called as_ref and was rejected: two invocations,
\* the counter reads 2, one view was returned.
C14_Witness ==
    /\ kind = "SelfMonadMut" /\ ~moved /\ stack = <<>>
    /\ ret.op = "as_ref" /\ ret.status = "panic" /\ ret.depth = 1
    /\ invoked = 2 /\ func.cell[1].count = 2 /\ ret.of = owner

\* C15: the guard of a SelfMonadMut is held exactly while a call is in the
\* step (no other container ever holds one); it is free again when the
\* call has returned or panicked, so a materialize call made when no call
\* is in progress reaches the step, also while views returned before are
\* alive.
C15_GuardHeldOnlyDuringStep ==
    /\ [](func.borrow <=> (kind = "SelfMonadMut" /\ stack # <<>>))
    /\ [][(kind = "SelfMonadMut" /\ stack = <<>> /\ MutMaterialize) =>
            (stack' # <<>> /\ func'.borrow /\ invoked' = invoked + 1)]_vars

\* Two views from a SelfMonadMut are alive at once: the second call was
\* made while the first view was in use, and returned.
C15_Witness ==
    /\ kind = "SelfMonadMut" /\ stack = <<>> /\ ~func.borrow
    /\ borrows.shared = 2 /\ invoked = 2 /\ served = 2
    /\ ret.op = "deref" /\ ret.status = "ok" /\ ret.val = <<"h", "e">>

\* C16: on a SelfMonadOnce whose slot is empty (the step was consumed, and
\* also after a later materialize call panicked) owner(), owner_mut() and
\* owner_into() can be called as the live references allow and return the
\* stored owner; and a materialize call that finds the slot empty leaves
\* the owner as it was.
C16_OnceOwnerAfterConsumption ==
    /\ []((kind = "SelfMonadOnce" /\ ~moved /\ stack = <<>>
            /\ func.cell = <<>>) =>
            /\ (borrows.excl = "none" /\ borrows.shared < MaxBorrows)
                   => ENABLED SelfMonadOnce_owner
            /\ borrows = NoBorrows => /\ ENABLED SelfMonadOnce_owner_mut
                                      /\ ENABLED SelfMonadOnce_owner_into)
    /\ [][(\/ SelfMonadOnce_owner_mut \/ SelfMonadOnce_owner_into
           \/ (stack = <<>> /\ SelfMonadOnce_owner)) =>
            /\ ret'.status = "ok" /\ ret'.val = owner
            /\ owner' = owner]_vars
    /\ [][(kind = "SelfMonadOnce" /\ func.cell = <<>> /\ OnceMaterialize) =>
            (Refused(ret') /\ owner' = owner /\ moved' = moved)]_vars

\* owner_mut() returned the owner of a SelfMonadOnce whose step had run and
\* whose owner the step had changed.
C16_Witness ==
    /\ kind = "SelfMonadOnce" /\ ~moved /\ func.cell = <<>>
    /\ invoked = 1 /\ served = 1
    /\ ret.op = "owner_mut" /\ ret.status = "ok"
    /\ ret.val = owner /\ owner # owner0 /\ ~written

\* C17: as_ref and as_mut of a SelfMonadOnce empty the slot before the step
\* runs: the slot is empty while the step is running and from then on, also
\* when the step panicked instead of returning a view; and a materialize
\* call made from within the step is refused without invoking anything.
C17_OnceSlotEmptiedFirst ==
    /\ []((kind = "SelfMonadOnce" /\ (stack # <<>> \/ invoked > 0)) =>
            func.cell = <<>>)
    /\ [][(kind = "SelfMonadOnce" /\ stack # <<>> /\ OnceMaterialize) =>
            (Refused(ret') /\ ret'.depth >= 1 /\ stack' = <<>>
             /\ invoked' = invoked /\ served' = served)]_vars

\* The step of a SelfMonadOnce called as_ref from its body and was refused:
\* the step was started, no view was returned, the slot is empty.
C17_Witness ==
    /\ kind = "SelfMonadOnce" /\ func.cell = <<>>
    /\ ret.op = "as_ref" /\ ret.status = "panic" /\ ret.depth = 1
    /\ invoked = 1 /\ served = 0

====
